---- MODULE Spec2Model ----
(***************************************************************************)
(* Model of rbo.py: the RankingSimilarity class (constructor, kendall's    *)
(* coverage diagnostics, rbo and rbo_ext).  Scores are exact rationals     *)
(* <<numerator, denominator>> with a positive denominator, in lowest       *)
(* terms, so that equality of tuples is equality of numbers.               *)
(***************************************************************************)
EXTENDS Integers, Sequences, FiniteSets

VARIABLES S, T, obj, call, out

vars == <<S, T, obj, call, out>>

(* ---------------------------- bounds ----------------------------------- *)
MaxLen == 3
NumItems == 4

Items == 1..NumItems

RECURSIVE SeqsUpTo(_)
SeqsUpTo(n) ==
    IF n = 0 THEN {<<>>}
    ELSE LET shorter == SeqsUpTo(n - 1)
         IN  shorter \cup {Append(q, x) : q \in {r \in shorter : Len(r) = n - 1}, x \in Items}

Lists == SeqsUpTo(MaxLen)

(* the depth argument k: <<>> is None, <<i>> is the integer i *)
KVals == {<<>>} \cup {<<i>> : i \in (-1)..MaxLen}

(* the persistence argument p: 1, two values inside (0,1), and values the
   assertion of rbo rejects *)
PVals == {<<1, 1>>, <<1, 2>>, <<2, 3>>, <<0, 1>>, <<3, 2>>, <<-1, 2>>}

(* ------------------------ exact arithmetic ----------------------------- *)
Abs(x) == IF x < 0 THEN -x ELSE x

RECURSIVE GCD(_, _)
GCD(a, b) == IF b = 0 THEN a ELSE GCD(b, a % b)

Rat(n, d) ==
    LET g == GCD(Abs(n), Abs(d))
        sg == IF d < 0 THEN -1 ELSE 1
    IN  <<(sg * n) \div g, (sg * d) \div g>>

Num(n) == <<n, 1>>
RAdd(x, y) == Rat(x[1] * y[2] + y[1] * x[2], x[2] * y[2])
RSub(x, y) == Rat(x[1] * y[2] - y[1] * x[2], x[2] * y[2])
RMul(x, y) == Rat(x[1] * y[1], x[2] * y[2])
RDiv(x, y) == Rat(x[1] * y[2], x[2] * y[1])
RLt(x, y) == x[1] * y[2] < y[1] * x[2]
RLe(x, y) == x[1] * y[2] <= y[1] * x[2]

RECURSIVE RPow(_, _)
RPow(x, e) == IF e = 0 THEN Num(1) ELSE RMul(x, RPow(x, e - 1))

One == Num(1)
Zero == Num(0)

(* ------------------------- list helpers -------------------------------- *)
set(L) == {L[i] : i \in 1..Len(L)}

Min2(a, b) == IF a <= b THEN a ELSE b

(* ------------------------- __init__ ------------------------------------ *)
(* init_ok checking the first list only *)
init_ok_first_only(s, t) == Len(s) = Cardinality(set(s))

(* lines 49-50: assert(len(S) == len(set(S))) *)
init_ok(s, t) == Len(s) = Cardinality(set(s)) /\ Len(t) = Cardinality(set(t))

(* an outcome record: status is "ok" or the name of the exception raised;
   score is the value returned by rbo / rbo_ext; A and X are the arrays of
   the call as they stand when it returns; diag and ranks belong to kendall *)
Raised(e) ==
    [status |-> e, score |-> Zero, A |-> <<>>, X |-> <<>>, diag |-> <<>>, ranks |-> <<>>]

(* ------------------------- kendall ------------------------------------- *)
RECURSIVE sorted(_)
sorted(c) ==
    IF c = {} THEN <<>>
    ELSE LET m == CHOOSE x \in c : \A y \in c : x <= y
         IN  <<m>> \o sorted(c \ {m})

(* lines 72-85: the 0-based position in L of every common item, the items
   taken in sorted order *)
common_ranking(L, common_set) ==
    LET keys == sorted(set(L) \cap common_set)
    IN  [j \in 1..Len(keys) |-> (CHOOSE i \in 1..Len(L) : L[i] = keys[j]) - 1]

(* lines 66-92: the coverage diagnostics and the two rankings handed to
   scipy's kendalltau; the coefficient itself is computed by scipy *)
kendall(s, t) ==
    LET common_elements == set(s) \cap set(t)
        N_c == Cardinality(common_elements)
    IN  IF Len(s) = 0 \/ Len(t) = 0
        THEN Raised("ZeroDivisionError")
        ELSE [status |-> "ok", score |-> Zero, A |-> <<>>, X |-> <<>>,
              diag |-> <<RDiv(Num(100 * N_c), Num(Len(s))),
                         RDiv(Num(100 * N_c), Num(Len(t)))>>,
              ranks |-> <<common_ranking(s, common_elements),
                          common_ranking(t, common_elements)>>]

(* ------------------------- rbo ----------------------------------------- *)
(* lines 130-132 *)
rbo_k(s, t, k) ==
    IF k = <<>> THEN Min2(Len(s), Len(t)) ELSE Min2(Min2(Len(s), Len(t)), k[1])

(* rbo_p_ok with the bounds of the interval included *)
rbo_p_ok_closed(p) == p = One \/ (RLe(Zero, p) /\ RLe(p, One))

(* line 139 *)
rbo_p_ok(p) == p = One \/ (RLt(Zero, p) /\ RLt(p, One))

(* weights with the depth counted from 1 *)
weights_from_one(p, d) == IF p = One THEN One ELSE RMul(RSub(One, p), RPow(p, d + 1))

(* lines 137, 140; d is the 0-based depth *)
weights(p, d) == IF p = One THEN One ELSE RMul(RSub(One, p), RPow(p, d))

(* rbo_tmp testing membership after the depth-d items were inserted *)
rbo_tmp_after_insert(s, t, d, S_running, T_running) ==
      (IF s[d + 1] \in T_running \cup {t[d + 1]} THEN 1 ELSE 0)
    + (IF t[d + 1] \in S_running \cup {s[d + 1]} THEN 1 ELSE 0)
    + (IF s[d + 1] = t[d + 1] THEN 1 ELSE 0)

(* lines 150-159; d is the 0-based depth, the lists are 1-based *)
rbo_tmp(s, t, d, S_running, T_running) ==
      (IF s[d + 1] \in T_running THEN 1 ELSE 0)
    + (IF t[d + 1] \in S_running THEN 1 ELSE 0)
    + (IF s[d + 1] = t[d + 1] THEN 1 ELSE 0)

(* rbo_first giving the first depth its weight without comparing the items *)
rbo_first_unconditional(s, t, p) ==
    [A |-> <<IF s[1] = t[1] THEN One ELSE Zero>>,
     AO |-> <<weights(p, 0)>>,
     S_running |-> {s[1]},
     T_running |-> {t[1]}]

(* lines 142-144: the state before the loop *)
rbo_first(s, t, p) ==
    [A |-> <<IF s[1] = t[1] THEN One ELSE Zero>>,
     AO |-> <<IF s[1] = t[1] THEN weights(p, 0) ELSE Zero>>,
     S_running |-> {s[1]},
     T_running |-> {t[1]}]

(* rbo_step without the p = 1 branch of the average-overlap update *)
rbo_step_weighted_only(s, t, p, d, st) ==
    LET tmp == rbo_tmp(s, t, d, st.S_running, st.T_running)
        Ad == RDiv(RAdd(RMul(st.A[d], Num(d)), Num(tmp)), Num(d + 1))
        AOd == RAdd(st.AO[d], RMul(weights(p, d), Ad))
    IN  [A |-> Append(st.A, Ad),
         AO |-> Append(st.AO, AOd),
         S_running |-> st.S_running \cup {s[d + 1]},
         T_running |-> st.T_running \cup {t[d + 1]}]

(* lines 147-172: one iteration of the loop at depth d *)
rbo_step(s, t, p, d, st) ==
    LET tmp == rbo_tmp(s, t, d, st.S_running, st.T_running)
        Ad == RDiv(RAdd(RMul(st.A[d], Num(d)), Num(tmp)), Num(d + 1))
        AOd == IF p = One
               THEN RDiv(RAdd(RMul(st.AO[d], Num(d)), Ad), Num(d + 1))
               ELSE RAdd(st.AO[d], RMul(weights(p, d), Ad))
    IN  [A |-> Append(st.A, Ad),
         AO |-> Append(st.AO, AOd),
         S_running |-> st.S_running \cup {s[d + 1]},
         T_running |-> st.T_running \cup {t[d + 1]}]

RECURSIVE rbo_loop(_, _, _, _, _, _)
rbo_loop(s, t, p, k, d, st) ==
    IF d >= k THEN st ELSE rbo_loop(s, t, p, k, d + 1, rbo_step(s, t, p, d, st))

(* rbo_return with the tail weighted by p^(k-1) *)
rbo_return_early_tail(st, p, k, ext) ==
    IF ext /\ RLt(p, One)
    THEN RAdd(st.AO[Len(st.AO)], RMul(st.A[Len(st.A)], RPow(p, k - 1)))
    ELSE st.AO[Len(st.AO)]

(* lines 174-177 *)
rbo_return(st, p, k, ext) ==
    IF ext /\ RLt(p, One)
    THEN RAdd(st.AO[Len(st.AO)], RMul(st.A[Len(st.A)], RPow(p, k)))
    ELSE st.AO[Len(st.AO)]

(* lines 130-177: the whole call, as an outcome record *)
rbo(s, t, k, p, ext) ==
    LET kk == rbo_k(s, t, k)
    IN  IF ~rbo_p_ok(p)
        THEN Raised("AssertionError")
        ELSE IF Len(s) = 0 \/ Len(t) = 0 \/ kk <= 0
        THEN Raised("IndexError")
        ELSE LET st == rbo_loop(s, t, p, kk, 1, rbo_first(s, t, p))
             IN  [status |-> "ok", score |-> rbo_return(st, p, kk, ext),
                  A |-> st.A, X |-> <<>>]

(* ------------------------- rbo_ext ------------------------------------- *)
(* lines 188-191: the short and the long list *)
short_list(s, t) == IF Len(s) > Len(t) THEN t ELSE s
long_list(s, t) == IF Len(s) > Len(t) THEN s ELSE t

(* overlap_incr_both testing the membership of the short list's item only *)
overlap_incr_both_one_sided(Sh, L, d, S_running, L_running) ==
    IF Sh[d + 1] = L[d + 1] THEN 1
    ELSE (IF Sh[d + 1] \in L_running THEN 1 ELSE 0)

(* lines 218-229: the running sets already hold the depth-d items *)
overlap_incr_both(Sh, L, d, S_running, L_running) ==
    IF Sh[d + 1] = L[d + 1] THEN 1
    ELSE (IF Sh[d + 1] \in L_running THEN 1 ELSE 0)
       + (IF L[d + 1] \in S_running THEN 1 ELSE 0)

(* line 241 *)
overlap_incr_long(L, d, S_running) == IF L[d + 1] \in S_running THEN 1 ELSE 0

(* lines 200-203, 208: the state before the loop; ext_term is not bound yet *)
rbo_ext_first(Sh, L, p) ==
    LET X0 == IF Sh[1] = L[1] THEN 1 ELSE 0
    IN  [X |-> <<X0>>,
         A |-> <<Num(X0)>>,
         rbo |-> <<RMul(RSub(One, p), Num(X0))>>,
         S_running |-> {Sh[1]},
         L_running |-> {L[1]},
         disjoint |-> Zero,
         ext_term |-> <<>>]

(* lines 212-235: depth d < s *)
rbo_ext_step_both(Sh, L, p, d, st) ==
    LET Srun == st.S_running \cup {Sh[d + 1]}
        Lrun == st.L_running \cup {L[d + 1]}
        Xd == st.X[d] + overlap_incr_both(Sh, L, d, Srun, Lrun)
        Ad == RDiv(Num(2 * Xd), Num(Cardinality(Srun) + Cardinality(Lrun)))
    IN  [X |-> Append(st.X, Xd),
         A |-> Append(st.A, Ad),
         rbo |-> Append(st.rbo, RAdd(st.rbo[d], RMul(RMul(RSub(One, p), RPow(p, d)), Ad))),
         S_running |-> Srun,
         L_running |-> Lrun,
         disjoint |-> st.disjoint,
         ext_term |-> <<RMul(Ad, RPow(p, d + 1))>>]

(* lines 237-249: depth d >= s *)
rbo_ext_step_long(Sh, L, p, d, st) ==
    LET s == Len(Sh)
        Lrun == st.L_running \cup {L[d + 1]}
        Xd == st.X[d] + overlap_incr_long(L, d, st.S_running)
        Ad == RDiv(Num(Xd), Num(d + 1))
        X_s == st.X[s]
    IN  [X |-> Append(st.X, Xd),
         A |-> Append(st.A, Ad),
         rbo |-> Append(st.rbo, RAdd(st.rbo[d], RMul(RMul(RSub(One, p), RPow(p, d)), Ad))),
         S_running |-> st.S_running,
         L_running |-> Lrun,
         disjoint |-> RAdd(st.disjoint,
                           RMul(RMul(RSub(One, p), RPow(p, d)),
                                RDiv(RDiv(Num(X_s * (d + 1 - s)), Num(d + 1)), Num(s)))),
         ext_term |-> <<RMul(RAdd(RDiv(Num(Xd - X_s), Num(d + 1)),
                                  RDiv(Num(st.X[s]), Num(s))),
                             RPow(p, d + 1))>>]

RECURSIVE rbo_ext_loop(_, _, _, _, _)
rbo_ext_loop(Sh, L, p, d, st) ==
    IF d >= Len(L) THEN st
    ELSE rbo_ext_loop(Sh, L, p, d + 1,
                      IF d < Len(Sh) THEN rbo_ext_step_both(Sh, L, p, d, st)
                                     ELSE rbo_ext_step_long(Sh, L, p, d, st))

(* lines 188-251: the whole call; S[0] fails on an empty short list, and the
   return statement reads ext_term, which only the loop body binds *)
rbo_ext(s, t, p) ==
    LET Sh == short_list(s, t)
        L == long_list(s, t)
    IN  IF Len(Sh) = 0
        THEN Raised("IndexError")
        ELSE LET st == rbo_ext_loop(Sh, L, p, 1, rbo_ext_first(Sh, L, p))
             IN  IF st.ext_term = <<>>
                 THEN Raised("UnboundLocalError")
                 ELSE [status |-> "ok",
                       score |-> RAdd(RAdd(st.rbo[Len(st.rbo)], st.disjoint), st.ext_term[1]),
                       A |-> st.A, X |-> st.X, diag |-> <<>>, ranks |-> <<>>]

(* ------------------------- state machine ------------------------------- *)
NoCall == [op |-> "none", k |-> <<>>, p |-> One, ext |-> FALSE]
NoOut == Raised("none")

Init ==
    /\ S = <<>>
    /\ T = <<>>
    /\ obj = "none"
    /\ call = NoCall
    /\ out = NoOut

(* RankingSimilarity(s, t) *)
Construct ==
    /\ obj = "none"
    /\ \E s \in Lists, t \in Lists :
         /\ S' = s
         /\ T' = t
         /\ obj' = IF init_ok(s, t) THEN "ok" ELSE "AssertionError"
    /\ UNCHANGED <<call, out>>

(* RS.rbo(k, p, ext) *)
CallRbo ==
    /\ obj = "ok"
    /\ call.op = "none"
    /\ \E k \in KVals, p \in PVals, ext \in BOOLEAN :
         /\ call' = [op |-> "rbo", k |-> k, p |-> p, ext |-> ext]
         /\ out' = rbo(S, T, k, p, ext)
    /\ UNCHANGED <<S, T, obj>>

(* RS.rbo_ext(p) *)
CallRboExt ==
    /\ obj = "ok"
    /\ call.op = "none"
    /\ \E p \in PVals :
         /\ call' = [op |-> "rbo_ext", k |-> <<>>, p |-> p, ext |-> FALSE]
         /\ out' = rbo_ext(S, T, p)
    /\ UNCHANGED <<S, T, obj>>

(* RS.kendall() *)
CallKendall ==
    /\ obj = "ok"
    /\ call.op = "none"
    /\ call' = [op |-> "kendall", k |-> <<>>, p |-> One, ext |-> FALSE]
    /\ out' = kendall(S, T)
    /\ UNCHANGED <<S, T, obj>>

(* the caller takes the outcome; the object stays usable *)
Return ==
    /\ call.op # "none"
    /\ call' = NoCall
    /\ out' = NoOut
    /\ UNCHANGED <<S, T, obj>>

Next == Construct \/ CallRbo \/ CallRboExt \/ CallKendall \/ Return

Spec == Init /\ [][Next]_vars

(* ------------------------- properties ---------------------------------- *)
NoDup(L) == \A i, j \in 1..Len(L) : i # j => L[i] # L[j]

Prefix(L, n) == SubSeq(L, 1, n)

(* the number of items the two prefixes of lengths m and n share *)
Shared(s, m, t, n) == Cardinality(set(Prefix(s, m)) \cap set(Prefix(t, n)))

RECURSIVE SumAgreement(_, _, _)
SumAgreement(s, t, n) ==
    IF n = 0 THEN Zero
    ELSE RAdd(SumAgreement(s, t, n - 1), RDiv(Num(Shared(s, n, t, n)), Num(n)))

NonEmptyBoth == Len(S) >= 1 /\ Len(T) >= 1
DepthAtLeastOne == call.k = <<>> \/ call.k[1] >= 1
InsideUnit(p) == RLt(Zero, p) /\ RLt(p, One)
Accepted(p) == p = One \/ InsideUnit(p)

(* C1, as stated: on identical non-empty lists rbo returns exactly 1 for
   every depth k >= 1 (or unset), every accepted p and either value of ext *)
C1_AlwaysOne ==
    (call.op = "rbo" /\ S = T /\ Len(S) >= 1 /\ DepthAtLeastOne /\ Accepted(call.p))
        => (out.status = "ok" /\ out.score = One)

(* C1, amended: on identical non-empty lists rbo returns exactly 1 when
   p = 1 or ext is set, and 1 - p^k' when 0 < p < 1 and ext is not set *)
C1_IdenticalLists ==
    (call.op = "rbo" /\ S = T /\ Len(S) >= 1 /\ DepthAtLeastOne /\ Accepted(call.p))
        => /\ out.status = "ok"
           /\ out.score = IF call.p = One \/ call.ext
                          THEN One
                          ELSE RSub(One, RPow(call.p, rbo_k(S, T, call.k)))

C1_Witness ==
    /\ call.op = "rbo" /\ S = T /\ Len(S) = MaxLen
    /\ call.k = <<>> /\ InsideUnit(call.p) /\ ~call.ext
    /\ out.status = "ok" /\ out.score # One

(* C2, as stated: on lists of equal length n >= 1 and 0 < p < 1, rbo_ext(p)
   and rbo(n, p, ext=True) agree: when either returns a score, the other
   returns the same score *)
C2_ExtAgreesWithFixedDepth ==
    (call.op = "rbo_ext" /\ Len(S) = Len(T) /\ Len(S) >= 1 /\ InsideUnit(call.p))
        => LET r == rbo(S, T, <<Len(S)>>, call.p, TRUE)
           IN  (out.status = "ok" \/ r.status = "ok")
                   => (out.status = r.status /\ out.score = r.score)

(* C3: swapping the two lists changes neither the outcome of rbo nor that
   of rbo_ext (same exception, or same score) *)
C3_Symmetric ==
    NonEmptyBoth =>
        /\ call.op = "rbo" =>
              LET r == rbo(T, S, call.k, call.p, call.ext)
              IN  out.status = r.status /\ out.score = r.score
        /\ call.op = "rbo_ext" =>
              LET r == rbo_ext(T, S, call.p)
              IN  out.status = r.status /\ out.score = r.score

C3_Witness ==
    /\ call.op = "rbo_ext" /\ Len(S) = Len(T) /\ Len(S) >= 2 /\ S # T
    /\ S[2] = T[1] /\ S[1] # T[2]
    /\ InsideUnit(call.p) /\ out.status = "ok" /\ out.score # Zero

(* C4: on non-empty lists sharing no item, the non-extrapolated rbo is
   exactly 0 for every depth k >= 1 (or unset) and every accepted p *)
C4_DisjointZero ==
    (/\ call.op = "rbo" /\ NonEmptyBoth /\ set(S) \cap set(T) = {}
     /\ DepthAtLeastOne /\ Accepted(call.p) /\ ~call.ext)
        => (out.status = "ok" /\ out.score = Zero)

C4_Witness ==
    /\ call.op = "rbo" /\ Len(S) >= 2 /\ Len(T) >= 2 /\ set(S) \cap set(T) = {}
    /\ call.k = <<>> /\ InsideUnit(call.p) /\ ~call.ext
    /\ out.status = "ok" /\ Len(out.A) >= 2

(* C5: every score rbo returns, and every score rbo_ext returns for
   0 < p < 1, lies in [0, 1] *)
C5_UnitInterval ==
    (/\ NonEmptyBoth
     /\ out.status = "ok"
     /\ \/ call.op = "rbo" /\ Accepted(call.p)
        \/ call.op = "rbo_ext" /\ InsideUnit(call.p))
        => (RLe(Zero, out.score) /\ RLe(out.score, One))

C5_Witness ==
    /\ call.op = "rbo_ext" /\ Len(S) # Len(T) /\ Len(S) >= 2 /\ Len(T) >= 2
    /\ InsideUnit(call.p) /\ out.status = "ok" /\ out.score = One

(* C6: with p = 1, rbo returns the mean of the agreement ratios of the
   prefixes of lengths 1..k', whatever ext is *)
C6_AverageOverlap ==
    (call.op = "rbo" /\ call.p = One /\ out.status = "ok")
        => LET kk == rbo_k(S, T, call.k)
           IN  /\ out.score = RDiv(SumAgreement(S, T, kk), Num(kk))
               /\ out.score = rbo(S, T, call.k, One, ~call.ext).score

C6_Witness ==
    /\ call.op = "rbo" /\ call.p = One /\ call.ext
    /\ rbo_k(S, T, call.k) >= 3
    /\ out.status = "ok" /\ RLt(Zero, out.score) /\ RLt(out.score, One)

(* C7: an rbo call whose p is neither 1 nor inside (0,1), or whose effective
   depth k' is zero, raises and returns no score *)
C7_InvalidFails ==
    call.op = "rbo" =>
        /\ ~Accepted(call.p) => out.status = "AssertionError"
        /\ (Accepted(call.p) /\ rbo_k(S, T, call.k) = 0) => out.status = "IndexError"

C7_Witness ==
    /\ call.op = "rbo" /\ NonEmptyBoth /\ DepthAtLeastOne
    /\ call.p = <<0, 1>> /\ out.status = "AssertionError"

(* C8: construction fails exactly when a list repeats an item; no call ever
   runs on a failed construction, and a constructed object holds two lists
   without repeated items *)
C8_DuplicatesRejected ==
    /\ obj # "none" => (obj = "AssertionError" <=> ~(NoDup(S) /\ NoDup(T)))
    /\ obj = "ok" => (NoDup(S) /\ NoDup(T))
    /\ (call.op # "none" \/ out.status # "none") => (obj = "ok" /\ NoDup(S) /\ NoDup(T))

C8_Witness ==
    /\ obj = "AssertionError" /\ NoDup(S) /\ ~NoDup(T) /\ Len(S) >= 1
    /\ call.op = "none"

(* C9, as stated: on every constructed object the coverage diagnostics of
   kendall never raise *)
C9_DiagnosticsNeverRaise ==
    call.op = "kendall" => out.status = "ok"

(* C10: the accumulated overlap equals the size of the intersection of the
   prefixes: A[d]*(d+1) in rbo for d < k', X[d] in rbo_ext for d < l (the
   short list's prefix stops growing at its length) *)
C10_OverlapIsIntersection ==
    /\ (call.op = "rbo" /\ out.status = "ok") =>
          /\ Len(out.A) = rbo_k(S, T, call.k)
          /\ \A d \in 0..(Len(out.A) - 1) :
                RMul(out.A[d + 1], Num(d + 1)) = Num(Shared(S, d + 1, T, d + 1))
    /\ (call.op = "rbo_ext" /\ out.status = "ok") =>
          LET Sh == short_list(S, T)
              L == long_list(S, T)
          IN  /\ Len(out.X) = Len(L)
              /\ \A d \in 0..(Len(L) - 1) :
                    out.X[d + 1] = Shared(Sh, Min2(d, Len(Sh) - 1) + 1, L, d + 1)

C10_Witness ==
    /\ call.op = "rbo_ext" /\ out.status = "ok"
    /\ Len(S) >= 2 /\ Len(T) > Len(S)
    /\ S[2] = T[2] /\ S[1] # T[1] /\ S[1] \in set(T)
    /\ out.X[Len(out.X)] = Len(S)
====
